---- MODULE Spec2Model ----
(***************************************************************************)
(* Model of csc-automember: the staging store and audit log kept in SQLite *)
(* (server.js), and the customer/card registry reached through the SQL     *)
(* batches of approveRenewal and createCustomerAndApprove (src/sqlite.js). *)
(*                                                                         *)
(* A handler of server.js runs to its next await as one step.  A SQL batch *)
(* is sent without BEGIN TRANSACTION, so every statement of the batch is   *)
(* its own transaction: a statement is one step and statements of batches  *)
(* running on different pool connections interleave.                       *)
(*                                                                         *)
(* Spec is the operator's requests against a small store.  IngestSpec is   *)
(* the webhook alone, with orders of several line items.  MatchSpec is     *)
(* findCandidates over registries of up to MaxPool customers.              *)
(***************************************************************************)
EXTENDS Integers, Sequences, FiniteSets, TLC

\* ------------------------------------------------------------------ bounds
MaxReq     == 2   \* approve requests that can be in flight together
MaxOps     == 2   \* approve/reject requests issued in one behaviour
MaxStaging == 1   \* staging rows
MaxItems   == 1   \* line items of one order
MaxTicks   == 1   \* days the clock advances
MaxBatch   == 2   \* line items of one order, when ingestion runs alone
MaxStored  == 3   \* staging rows, when ingestion runs alone
MaxPool    == 6   \* customers of the registry searched by findCandidates
GenSpace   == 2   \* distinct random suffixes the generator can draw

\* ------------------------------------------------------- program constants
DefaultTerm   == 12   \* server.js:104, Number(m?.value || 12)
RenewalMonths == 12   \* sqlite.js:123 and :128, DATEADD(MONTH,12,...)
TopRows       == 5    \* sqlite.js:79, SELECT TOP (5)

\* ---------------------------------------------------------------- helpers
\* An optional value is a sequence of length 0 (null/undefined) or 1.
None    == << >>
Some(x) == << x >>

\* ------------------------------------------------------------------ dates
\* A date is <<year, month, day>>; a datetime is [date, sec] (second of day).
IsLeap(y) == (y % 4 = 0 /\ y % 100 # 0) \/ y % 400 = 0

DaysInMonth(y, m) ==
    IF m = 2 THEN (IF IsLeap(y) THEN 29 ELSE 28)
    ELSE IF m \in {4, 6, 9, 11} THEN 30 ELSE 31

DateLT(a, b) ==
    \/ a[1] < b[1]
    \/ a[1] = b[1] /\ a[2] < b[2]
    \/ a[1] = b[1] /\ a[2] = b[2] /\ a[3] < b[3]

DateLE(a, b) == a = b \/ DateLT(a, b)

\* DATEADD(DAY, 1, d)
AddDay(d) ==
    IF d[3] < DaysInMonth(d[1], d[2]) THEN <<d[1], d[2], d[3] + 1>>
    ELSE IF d[2] < 12 THEN <<d[1], d[2] + 1, 1>>
    ELSE <<d[1] + 1, 1, 1>>

\* DATEADD(DAY, -1, d)
PrevDay(d) ==
    IF d[3] > 1 THEN <<d[1], d[2], d[3] - 1>>
    ELSE IF d[2] > 1 THEN <<d[1], d[2] - 1, DaysInMonth(d[1], d[2] - 1)>>
    ELSE <<d[1] - 1, 12, 31>>

\* DATEADD(MONTH, n, d): same day of the target month, clamped to its length
AddMonths(n, d) ==
    LET t  == d[1] * 12 + (d[2] - 1) + n
        y2 == t \div 12
        m2 == (t % 12) + 1
        dm == DaysInMonth(y2, m2)
    IN  <<y2, m2, IF d[3] <= dm THEN d[3] ELSE dm>>

\* DATEADD(SECOND, -1, dt)
SubSecond(dt) ==
    IF dt.sec > 0 THEN [date |-> dt.date, sec |-> dt.sec - 1]
    ELSE [date |-> PrevDay(dt.date), sec |-> 24 * 60 * 60 - 1]

\* a date used as a datetime is its midnight
Midnight(d) == [date |-> d, sec |-> 0]

\* CONVERT(date, dt)
ToDate(dt) == dt.date

DateTimeLT(a, b) == DateLT(a.date, b.date) \/ (a.date = b.date /\ a.sec < b.sec)

\* ---------------------------------------------------------------- strings
\* A string is a sequence of one-character strings.
IsSpace(c) == c = " "
Digits == <<"0", "1", "2", "3", "4", "5", "6", "7", "8", "9">>
IsDigit(c) == \E i \in DOMAIN Digits : Digits[i] = c
DigitVal(c) == (CHOOSE i \in DOMAIN Digits : Digits[i] = c) - 1

RECURSIVE LTrim(_)
LTrim(s) == IF s # << >> /\ IsSpace(Head(s)) THEN LTrim(Tail(s)) ELSE s

RECURSIVE RTrim(_)
RTrim(s) ==
    IF s # << >> /\ IsSpace(s[Len(s)]) THEN RTrim(SubSeq(s, 1, Len(s) - 1)) ELSE s

\* String.prototype.trim, and LTRIM(RTRIM(x))
Trim(s) == LTrim(RTrim(s))

\* ------------------------------------------------------------ JavaScript
\* A JS value of the webhook payload: undefined is None, otherwise
\* Some([t, n, s]) with t = "num" (value n) or t = "str" (value s).
JsNum(n) == Some([t |-> "num", n |-> n, s |-> << >>])
JsStr(s) == Some([t |-> "str", n |-> 0, s |-> s])

\* truthiness: undefined, 0 and "" are falsy
Truthy(v) ==
    /\ v # None
    /\ (v[1].t = "num" => v[1].n # 0)
    /\ (v[1].t = "str" => v[1].s # << >>)

\* a number is Some(n); NaN is None
NaN == None

RECURSIVE DecimalValue(_)
DecimalValue(s) ==
    IF s = << >> THEN 0
    ELSE 10 * DecimalValue(SubSeq(s, 1, Len(s) - 1)) + DigitVal(s[Len(s)])

\* Number(v) for the values above: a string is trimmed, the empty string is
\* 0, a string of digits is its decimal value, anything else is NaN.
\* (Signs, fractions and exponents are outside the modelled inputs.)
Number(v) ==
    IF v = None THEN NaN
    ELSE IF v[1].t = "num" THEN Some(v[1].n)
    ELSE LET t == Trim(v[1].s)
         IN  IF \A i \in DOMAIN t : IsDigit(t[i]) THEN Some(DecimalValue(t)) ELSE NaN

\* obj.key: the own property, or undefined
JsGet(obj, key) == IF key \in DOMAIN obj THEN Some(obj[key]) ELSE None

\* JSON.stringify of an object literal whose values are optional: a property
\* whose value is undefined is left out.
JsonStringify(obj) ==
    [k \in {k \in DOMAIN obj : obj[k] # None} |-> obj[k][1]]

\* ------------------------------------------------------------------ state
VARIABLES
    staging,    \* AutoMember_Staging: sequence of rows, StagingId = position
    audit,      \* AutoMember_Audit: sequence of rows, AuditId = position
    customers,  \* dbo.Customers: sequence of rows, CustomerID = position
    cards,      \* dbo.CustomerLoyaltyCards: sequence of rows
    issued,     \* history: one entry per card row inserted by approveRenewal
    req,        \* approve requests in flight: locals and position of each
    today,      \* the current UTC date
    ticks,      \* days elapsed since the first state
    ops,        \* approve/reject requests issued so far
    http        \* what the last step did at the HTTP interface

vars == <<staging, audit, customers, cards, issued, req, today, ticks, ops, http>>

Requests == 1 .. MaxReq
StagingIds == 1 .. MaxStaging

\* the operator identity of req.user.email
Actor == "operator"

\* a step that neither receives a request nor sends a response
Quiet == [kind |-> "none", sid |-> 0, res |-> "none"]

Idle ==
    [pc |-> "idle", sid |-> 0, createNew |-> FALSE, custID |-> 0,
     provided |-> None, tdy |-> None, curExp |-> None, start |-> None, end |-> None,
     cardNo |-> None, outcome |-> None, err |-> ""]

\* --------------------------------------------------------- initial states
FirstDay == <<2024, 2, 29>>

CardA == <<"A">>

\* a card row that expires at the end of expDate
CardRow(cust, no, expDate, revoked) ==
    [CustomerID |-> cust, CardNo |-> no,
     DTExpiry |-> SubSecond(Midnight(AddDay(expDate))), IsRevoked |-> revoked]

\* The registry is an external database: it starts with one customer who has
\* no card, a card expiring on the first day (current until the clock moves,
\* expired after), or a revoked card expiring later.
InitialCards ==
    { << >>,
      << CardRow(1, CardA, FirstDay, FALSE) >>,
      << CardRow(1, CardA, AddMonths(3, FirstDay), TRUE) >> }

Init ==
    /\ staging = << >>
    /\ audit = << >>
    /\ customers = << [CustomerID |-> 1] >>
    /\ cards \in InitialCards
    /\ issued = << >>
    /\ req = [r \in Requests |-> Idle]
    /\ today = FirstDay
    /\ ticks = 0
    /\ ops = 0
    /\ http = Quiet

\* ------------------------------------------------------------- the clock
Tick ==
    /\ ticks < MaxTicks
    /\ ticks' = ticks + 1
    /\ today' = AddDay(today)
    /\ http' = Quiet
    /\ UNCHANGED <<staging, audit, customers, cards, issued, req, ops>>

\* -------------------------------------------------------------- ingestion
\* A line item: whether it is in the membership category, and the value of
\* its term_months meta entry (None when there is no such entry).
MetaValues == { None, JsStr(<<"6">>), JsNum(0), JsStr(<<"x">>) }

LineItems == [membership : BOOLEAN, term_months : MetaValues]

OrderIds == { 7 }

\* an order: its id and its line_items
Orders ==
    [id : OrderIds, line_items : UNION { [1 .. n -> LineItems] : n \in 0 .. MaxItems }]

\* termOf: Number(m?.value || 12)
termOf(li) ==
    IF Truthy(li.term_months) THEN Number(li.term_months)
    ELSE Some(DefaultTerm)

\* rows = items.map(...): every line item becomes a row
StagingRow(id, order, li, now) ==
    [StagingId |-> id, OrderId |-> order.id, TermMonths |-> termOf(li),
     Status |-> "Pending", CreatedAt |-> now, UpdatedAt |-> now]

\* insert.run(r): TermMonths is INTEGER NOT NULL and NaN is bound as NULL
InsertRuns(row) == row.TermMonths # NaN

StoredRow(row) == [row EXCEPT !.TermMonths = row.TermMonths[1]]

\* rs.forEach(r => insert.run(r)): the rows are inserted in order until an
\* insert throws
RECURSIVE forEachInsert(_, _)
forEachInsert(table, rs) ==
    IF rs = << >> THEN [table |-> table, threw |-> FALSE]
    ELSE IF ~InsertRuns(Head(rs)) THEN [table |-> table, threw |-> TRUE]
    ELSE forEachInsert(Append(table, StoredRow(Head(rs))), Tail(rs))

\* the inserts run outside a transaction: what was inserted before the throw
\* stays
autocommit(table, rs) == forEachInsert(table, rs)

\* db.transaction(fn)(rows): commit, or roll back and rethrow when fn throws
tx(table, rs) ==
    LET out == forEachInsert(table, rs)
    IN  IF out.threw THEN [table |-> table, threw |-> TRUE] ELSE out

\* POST /webhooks/woocommerce: the handler (it is synchronous)
Webhook(order) ==
    /\ LET items == order.line_items
           rows  == [i \in DOMAIN items |->
                      StagingRow(Len(staging) + i, order, items[i], today)]
           out   == tx(staging, rows)
       IN  IF items = << >>
           THEN /\ staging' = staging
                /\ http' = [kind |-> "ingest", sid |-> 0, res |-> "no items",
                            order |-> order]
           ELSE /\ staging' = out.table
                /\ http' = [kind |-> "ingest", sid |-> 0,
                            res |-> IF out.threw THEN "error" ELSE "staged",
                            order |-> order]
    /\ UNCHANGED <<audit, customers, cards, issued, req, today, ticks, ops>>

\* an order is received while the staging store has room for its rows
Ingest(order) ==
    /\ Len(staging) + Len(order.line_items) <= MaxStaging
    /\ Webhook(order)

\* ------------------------------------------------------ registry queries
\* the lookup without its Status = 'Pending' condition
SelectAnyStatus(id) ==
    IF id \in DOMAIN staging THEN Some(staging[id]) ELSE None

\* SELECT * FROM AutoMember_Staging WHERE StagingId = ? AND Status = 'Pending'
SelectPending(id) ==
    IF id \in DOMAIN staging /\ staging[id].Status = "Pending"
    THEN Some(staging[id]) ELSE None

\* (providedCardNo || '').trim() || null
NormalizeProvided(p) ==
    LET t == Trim(IF p = None THEN << >> ELSE p[1])
    IN  IF t = << >> THEN None ELSE Some(t)

\* SELECT TOP(1) CONVERT(date, DTExpiry) ... WHERE CustomerID = @CustomerID
\* AND IsRevoked = 0 ORDER BY DTExpiry DESC, DTCreated DESC.  Rows with the
\* same DTExpiry give the same date, so DTCreated does not affect the value.
CurrentExpiry(cust) ==
    LET live == { i \in DOMAIN cards :
                    cards[i].CustomerID = cust /\ ~cards[i].IsRevoked }
    IN  IF live = {} THEN None
        ELSE LET top == CHOOSE i \in live : \A j \in live :
                           ~DateTimeLT(cards[i].DTExpiry, cards[j].DTExpiry)
             IN  Some(ToDate(cards[top].DTExpiry))

\* IF @CurrentExpiry IS NOT NULL AND @CurrentExpiry >= @Today ... ELSE ...
RenewalWindow(cur, tdy) ==
    IF cur # None /\ DateLE(tdy, cur[1])
    THEN [start |-> AddDay(cur[1]), end |-> AddMonths(RenewalMonths, cur[1])]
    ELSE [start |-> tdy, end |-> AddMonths(RenewalMonths, tdy)]

\* EXISTS (SELECT 1 FROM dbo.CustomerLoyaltyCards WHERE CardNo = @CardNo)
CardExists(no) == \E i \in DOMAIN cards : cards[i].CardNo = no

\* CONCAT('CSC-', yyyy, '-', RIGHT(ABS(CHECKSUM(NEWID())), 6)): the prefix is
\* written "C" and the random suffix is one of GenSpace digits.
GeneratedCardNos == { <<"C", Digits[i + 1]>> : i \in 1 .. GenSpace }

\* @CardNo IS NULL OR LTRIM(RTRIM(@CardNo)) = ''
NeedsGenerated(no) == IF no = None THEN TRUE ELSE Trim(no[1]) = << >>

\* DATEADD(SECOND, -1, DATEADD(DAY, 1, @EndDate))
ExpiryInstant(end) == SubSecond(Midnight(AddDay(end)))

\* ------------------------------------------------------- approve request
\* Request bodies: createNew, chosenCustomerID (0 when absent) and
\* providedCardNo (None when absent).
ProvidedInputs ==
    { None, Some(<<" ">>), Some(<<"A">>), Some(<<" ", "A">>) }

Bodies ==
    [createNew : BOOLEAN, chosenCustomerID : 0 .. Len(customers),
     providedCardNo : ProvidedInputs]

\* POST /api/staging/:id/approve up to its first await (server.js:163-180).
\* The request takes the first free slot.  providedCardNo is kept as
\* approveRenewal normalises it on entry (sqlite.js:107).
ApproveBegin(r, id, body) ==
    /\ req[r].pc = "idle"
    /\ \A q \in Requests : q < r => req[q].pc # "idle"
    /\ ops < MaxOps
    /\ ops' = ops + 1
    /\ IF SelectPending(id) = None
       THEN /\ http' = [kind |-> "approve", sid |-> id, res |-> "NotPending"]
            /\ req' = req
       ELSE IF body.createNew
       THEN /\ http' = [kind |-> "approve", sid |-> id, res |-> "started"]
            /\ req' = [req EXCEPT ![r] =
                   [Idle EXCEPT !.pc = "insertCustomer", !.sid = id,
                                !.createNew = TRUE,
                                !.provided = NormalizeProvided(body.providedCardNo)]]
       ELSE IF body.chosenCustomerID = 0
       THEN /\ http' = [kind |-> "approve", sid |-> id, res |-> "ValidationError"]
            /\ req' = req
       ELSE /\ http' = [kind |-> "approve", sid |-> id, res |-> "started"]
            /\ req' = [req EXCEPT ![r] =
                   [Idle EXCEPT !.pc = "readExpiry", !.sid = id,
                                !.custID = body.chosenCustomerID,
                                !.provided = NormalizeProvided(body.providedCardNo)]]
    /\ UNCHANGED <<staging, audit, customers, cards, issued, today, ticks>>

\* a customer who has no card is taken instead of inserting a new one
InsertCustomerReusesOrphan(r) ==
    /\ req[r].pc = "insertCustomer"
    /\ LET free == { k \in DOMAIN customers :
                       \A i \in DOMAIN cards : cards[i].CustomerID # k }
       IN  IF free = {}
           THEN /\ customers' = Append(customers, [CustomerID |-> Len(customers) + 1])
                /\ req' = [req EXCEPT ![r].pc = "readExpiry",
                                      ![r].custID = Len(customers) + 1]
           ELSE /\ customers' = customers
                /\ req' = [req EXCEPT ![r].pc = "readExpiry",
                                      ![r].custID = CHOOSE k \in free : TRUE]
    /\ http' = Quiet
    /\ UNCHANGED <<staging, audit, cards, issued, today, ticks, ops>>

\* createCustomerAndApprove: INSERT INTO dbo.Customers; SELECT SCOPE_IDENTITY()
InsertCustomer(r) ==
    /\ req[r].pc = "insertCustomer"
    /\ customers' = Append(customers, [CustomerID |-> Len(customers) + 1])
    /\ req' = [req EXCEPT ![r].pc = "readExpiry",
                          ![r].custID = Len(customers) + 1]
    /\ http' = Quiet
    /\ UNCHANGED <<staging, audit, cards, issued, today, ticks, ops>>

\* approveRenewal: @Today, @CurrentExpiry, the window, and @CardNo with its
\* first generated value when none was provided (all locals of the batch)
ReadCurrentExpiry(r) ==
    /\ req[r].pc = "readExpiry"
    /\ LET cur == CurrentExpiry(req[r].custID)
           w   == RenewalWindow(cur, today)
           q   == [req[r] EXCEPT !.tdy = Some(today),
                                 !.curExp = cur, !.start = Some(w.start),
                                 !.end = Some(w.end), !.provided = None]
       IN  IF NeedsGenerated(req[r].provided)
           THEN \E no \in GeneratedCardNos :
                  req' = [req EXCEPT ![r] =
                            [q EXCEPT !.pc = "whileExists", !.cardNo = Some(no)]]
           ELSE req' = [req EXCEPT ![r] =
                            [q EXCEPT !.pc = "checkProvided",
                                      !.cardNo = req[r].provided]]
    /\ http' = Quiet
    /\ UNCHANGED <<staging, audit, customers, cards, issued, today, ticks, ops>>

\* the await rejects: only the handler's own locals survive into the catch
Threw(q, msg) ==
    [Idle EXCEPT !.pc = "threw", !.sid = q.sid, !.createNew = q.createNew,
                 !.err = msg]

\* WHILE EXISTS (...) SET @CardNo = CONCAT(...)
WhileExists(r) ==
    /\ req[r].pc = "whileExists"
    /\ IF CardExists(req[r].cardNo[1])
       THEN \E no \in GeneratedCardNos : req' = [req EXCEPT ![r].cardNo = Some(no)]
       ELSE req' = [req EXCEPT ![r].pc = "insertCard"]
    /\ http' = Quiet
    /\ UNCHANGED <<staging, audit, customers, cards, issued, today, ticks, ops>>

\* IF EXISTS (...) THROW 51001, 'Provided CardNo already exists'
CheckProvided(r) ==
    /\ req[r].pc = "checkProvided"
    /\ IF CardExists(req[r].cardNo[1])
       THEN req' = [req EXCEPT ![r] = Threw(req[r], "Provided CardNo already exists")]
       ELSE req' = [req EXCEPT ![r].pc = "insertCard"]
    /\ http' = Quiet
    /\ UNCHANGED <<staging, audit, customers, cards, issued, today, ticks, ops>>

\* INSERT INTO dbo.CustomerLoyaltyCards, then the SELECT that is the recordset
InsertCard(r) ==
    /\ req[r].pc = "insertCard"
    /\ cards' = Append(cards,
          [CustomerID |-> req[r].custID, CardNo |-> req[r].cardNo[1],
           DTExpiry |-> ExpiryInstant(req[r].end[1]), IsRevoked |-> FALSE])
    /\ issued' = Append(issued,
          [row |-> Len(cards) + 1, sid |-> req[r].sid,
           createNew |-> req[r].createNew, CustomerID |-> req[r].custID,
           curExp |-> req[r].curExp, tdy |-> req[r].tdy[1],
           start |-> req[r].start[1], end |-> req[r].end[1]])
    /\ req' = [req EXCEPT ![r] =
          [Idle EXCEPT !.pc = "returned", !.sid = req[r].sid,
                       !.createNew = req[r].createNew,
                       !.outcome = Some([CustomerID |-> req[r].custID,
                                         CardNo |-> req[r].cardNo[1],
                                         NewExpiry |-> req[r].end[1]])]]
    /\ http' = Quiet
    /\ UNCHANGED <<staging, audit, customers, today, ticks, ops>>

\* a failure of the registry call that the handler takes for a return
RegistryFailIgnored(r) ==
    /\ req[r].pc \in {"insertCustomer", "readExpiry", "checkProvided",
                      "whileExists", "insertCard"}
    /\ req' = [req EXCEPT ![r] =
          [Idle EXCEPT !.pc = "returned", !.sid = req[r].sid,
                       !.createNew = req[r].createNew,
                       !.outcome = Some([customerID |-> req[r].custID])]]
    /\ http' = Quiet
    /\ UNCHANGED <<staging, audit, customers, cards, issued, today, ticks, ops>>

\* the registry call rejects for a reason other than a duplicate card number
\* (sqlPool or the connection fails) before its statement has run
RegistryFail(r) ==
    /\ req[r].pc \in {"insertCustomer", "readExpiry", "checkProvided",
                      "whileExists", "insertCard"}
    /\ req' = [req EXCEPT ![r] = Threw(req[r], "RegistryUnavailable")]
    /\ http' = Quiet
    /\ UNCHANGED <<staging, audit, customers, cards, issued, today, ticks, ops>>

\* AuditId INTEGER PRIMARY KEY AUTOINCREMENT: one more than the largest
\* identifier the table has held
NextAuditId == IF audit = << >> THEN 1 ELSE audit[Len(audit)].AuditId + 1

\* the outcome's customerID and cardNo as server.js:193 reads them
AuditDiff(outcome) ==
    JsonStringify([customerID |-> JsGet(outcome, "customerID"),
                   cardNo |-> JsGet(outcome, "cardNo")])

\* server.js:183-197: mark approved and audit
ApproveCommit(r) ==
    /\ req[r].pc = "returned"
    /\ staging' = [staging EXCEPT ![req[r].sid].Status = "Approved",
                                  ![req[r].sid].UpdatedAt = today]
    /\ audit' = Append(audit,
          [AuditId |-> NextAuditId, StagingId |-> req[r].sid,
           Action |-> IF req[r].createNew THEN "Upserted" ELSE "Renewed",
           Actor |-> Actor,
           DiffJson |-> AuditDiff(req[r].outcome[1]),
           CreatedAt |-> today])
    /\ req' = [req EXCEPT ![r] = Idle]
    /\ http' = [kind |-> "approve", sid |-> req[r].sid, res |-> "ok"]
    /\ UNCHANGED <<customers, cards, issued, today, ticks, ops>>

\* a catch block that keeps one Error entry, the latest, in the audit table
ApproveCatchKeepsLatest(r) ==
    /\ req[r].pc = "threw"
    /\ LET entry == [AuditId |-> NextAuditId, StagingId |-> req[r].sid,
                     Action |-> "Error", Actor |-> Actor,
                     DiffJson |-> JsonStringify([error |-> Some(req[r].err)]),
                     CreatedAt |-> today]
       IN  audit' = SelectSeq(audit, LAMBDA e : e.Action # "Error") \o <<entry>>
    /\ req' = [req EXCEPT ![r] = Idle]
    /\ http' = [kind |-> "approve", sid |-> req[r].sid, res |-> "error"]
    /\ UNCHANGED <<staging, customers, cards, issued, today, ticks, ops>>

\* a catch block that also takes the record out of Pending
ApproveCatchMarksRecord(r) ==
    /\ req[r].pc = "threw"
    /\ staging' = [staging EXCEPT ![req[r].sid].Status = "Rejected",
                                  ![req[r].sid].UpdatedAt = today]
    /\ audit' = Append(audit,
          [AuditId |-> NextAuditId, StagingId |-> req[r].sid,
           Action |-> "Error", Actor |-> Actor,
           DiffJson |-> JsonStringify([error |-> Some(req[r].err)]),
           CreatedAt |-> today])
    /\ req' = [req EXCEPT ![r] = Idle]
    /\ http' = [kind |-> "approve", sid |-> req[r].sid, res |-> "error"]
    /\ UNCHANGED <<customers, cards, issued, today, ticks, ops>>

\* server.js:198-205: audit the error
ApproveCatch(r) ==
    /\ req[r].pc = "threw"
    /\ audit' = Append(audit,
          [AuditId |-> NextAuditId, StagingId |-> req[r].sid,
           Action |-> "Error", Actor |-> Actor,
           DiffJson |-> JsonStringify([error |-> Some(req[r].err)]),
           CreatedAt |-> today])
    /\ req' = [req EXCEPT ![r] = Idle]
    /\ http' = [kind |-> "approve", sid |-> req[r].sid, res |-> "error"]
    /\ UNCHANGED <<staging, customers, cards, issued, today, ticks, ops>>

\* ---------------------------------------------------------------- reject
Reasons == { None, Some("duplicate order") }

\* POST /api/staging/:id/reject (the body is not read)
Reject(id, reason) ==
    /\ ops < MaxOps
    /\ ops' = ops + 1
    /\ IF SelectPending(id) = None
       THEN /\ http' = [kind |-> "reject", sid |-> id, res |-> "NotPending"]
            /\ UNCHANGED <<staging, audit>>
       ELSE /\ http' = [kind |-> "reject", sid |-> id, res |-> "ok"]
            /\ staging' = [staging EXCEPT ![id].Status = "Rejected",
                                          ![id].UpdatedAt = today]
            /\ audit' = Append(audit,
                  [AuditId |-> NextAuditId, StagingId |-> id,
                   Action |-> "Rejected", Actor |-> Actor,
                   DiffJson |-> JsonStringify([reason |-> Some("")]),
                   CreatedAt |-> today])
    /\ UNCHANGED <<customers, cards, issued, req, today, ticks>>

\* ------------------------------------------------------------------- spec
Next ==
    \/ Tick
    \/ \E order \in Orders : Ingest(order)
    \/ \E r \in Requests, id \in StagingIds, body \in Bodies : ApproveBegin(r, id, body)
    \/ \E r \in Requests : InsertCustomer(r)
    \/ \E r \in Requests : ReadCurrentExpiry(r)
    \/ \E r \in Requests : WhileExists(r)
    \/ \E r \in Requests : CheckProvided(r)
    \/ \E r \in Requests : InsertCard(r)
    \/ \E r \in Requests : RegistryFail(r)
    \/ \E r \in Requests : ApproveCommit(r)
    \/ \E r \in Requests : ApproveCatch(r)
    \/ \E id \in StagingIds, reason \in Reasons : Reject(id, reason)

Spec == Init /\ [][Next]_vars

\* ------------------------------------------------- ingestion running alone
\* Orders of up to MaxBatch line items arrive while the clock advances; no
\* operator request is made.
BatchOrders ==
    [id : OrderIds, line_items : UNION { [1 .. n -> LineItems] : n \in 0 .. MaxBatch }]

IngestBatch(order) ==
    /\ Len(staging) + Len(order.line_items) <= MaxStored
    /\ Webhook(order)

IngestInit == Init /\ cards = << >>

IngestNext ==
    \/ Tick
    \/ \E order \in BatchOrders : IngestBatch(order)

IngestSpec == IngestInit /\ [][IngestNext]_vars

\* ------------------------------------------------------- candidate lookup
\* findCandidates (sqlite.js:63-101) over a registry of up to MaxPool
\* customers.  A customer row carries its identity columns; a column or a
\* parameter that is NULL is None.
UpperCase == <<"A", "B">>
LowerCase == <<"a", "b">>

\* LOWER(x)
Lower(str) ==
    IF str = << >> THEN << >>
    ELSE [i \in 1 .. Len(str) |->
            IF \E k \in DOMAIN UpperCase : UpperCase[k] = str[i]
            THEN LowerCase[CHOOSE k \in DOMAIN UpperCase : UpperCase[k] = str[i]]
            ELSE str[i]]

\* REPLACE(REPLACE(REPLACE(x,'+',''),' ',''),'-','')
StripPhone(str) == SelectSeq(str, LAMBDA c : c \notin {"+", " ", "-"})

\* a = b on two nvarchar values: trailing spaces do not count
SqlEq(a, b) == RTrim(a) = RTrim(b)

\* the parameter bound as it was given
ParamAsGiven(v) == v

\* request.input(name, type, value || null)
Param(v) == IF v = None THEN None ELSE IF v[1] = << >> THEN None ELSE v

Params(q) ==
    [FirstName |-> Param(q.FirstName), LastName |-> Param(q.LastName),
     Email |-> Param(q.Email), Phone |-> Param(q.Phone), DOB |-> Param(q.DOB)]

\* @Email IS NOT NULL AND LOWER(LTRIM(RTRIM(cu.Email))) = LOWER(LTRIM(RTRIM(@Email)))
EmailMatches(cu, p) ==
    /\ p.Email # None
    /\ cu.Email # None
    /\ SqlEq(Lower(Trim(cu.Email[1])), Lower(Trim(p.Email[1])))

\* ISNULL(cu.Mobile, cu.TelNo)
PhoneOf(cu) == IF cu.Mobile # None THEN cu.Mobile ELSE cu.TelNo

PhoneMatches(cu, p) ==
    /\ p.Phone # None
    /\ PhoneOf(cu) # None
    /\ SqlEq(StripPhone(PhoneOf(cu)[1]), StripPhone(p.Phone[1]))

\* @DOB IS NOT NULL AND cu.Birthday = @DOB
DobMatches(cu, p) == p.DOB # None /\ cu.Birthday # None /\ cu.Birthday = p.DOB

\* cu.FirstName = @FirstName AND cu.Surname = @LastName (NULL = x is not true)
NameMatches(cu, p) ==
    /\ p.FirstName # None /\ cu.FirstName # None
    /\ p.LastName # None /\ cu.Surname # None
    /\ SqlEq(cu.FirstName[1], p.FirstName[1])
    /\ SqlEq(cu.Surname[1], p.LastName[1])

\* the WHERE clause
Matches(cu, p) ==
    EmailMatches(cu, p) \/ PhoneMatches(cu, p) \/ DobMatches(cu, p) \/ NameMatches(cu, p)

\* CASE WHEN <email match> THEN 1 ELSE 2 END
Rank(cu, p) == IF EmailMatches(cu, p) THEN 1 ELSE 2

\* ORDER BY CustomerID ASC alone
RECURSIVE OrderById(_, _)
OrderById(rows, p) ==
    IF rows = {} THEN << >>
    ELSE LET first == CHOOSE a \in rows :
                        \A b \in rows : a.CustomerID <= b.CustomerID
         IN  <<first>> \o OrderById(rows \ {first}, p)

\* ORDER BY CASE ... END, cu.CustomerID ASC
RECURSIVE OrderBy(_, _)
OrderBy(rows, p) ==
    IF rows = {} THEN << >>
    ELSE LET first == CHOOSE a \in rows : \A b \in rows :
                        \/ Rank(a, p) < Rank(b, p)
                        \/ Rank(a, p) = Rank(b, p) /\ a.CustomerID <= b.CustomerID
         IN  <<first>> \o OrderBy(rows \ {first}, p)

\* SELECT TOP (n)
Top(n, rows) == SubSeq(rows, 1, IF Len(rows) < n THEN Len(rows) ELSE n)

\* LatestCard with rn = 1: the customer's card of latest DTExpiry, the one
\* created last among those (cards are kept in creation order)
LatestCard(cust) ==
    LET own == { i \in DOMAIN cards : cards[i].CustomerID = cust }
    IN  IF own = {} THEN None
        ELSE Some(cards[CHOOSE i \in own : \A j \in own :
                    \/ DateTimeLT(cards[j].DTExpiry, cards[i].DTExpiry)
                    \/ cards[j].DTExpiry = cards[i].DTExpiry /\ j <= i])

\* the columns of the SELECT
Candidate(cu) ==
    LET lc == LatestCard(cu.CustomerID)
    IN  [CustomerID |-> cu.CustomerID,
         MemberNumber |-> IF lc = None THEN None ELSE Some(lc[1].CardNo),
         FirstName |-> cu.FirstName, LastName |-> cu.Surname, Email |-> cu.Email,
         TelNo |-> cu.TelNo, Mobile |-> cu.Mobile, DOB |-> cu.Birthday,
         ExpiryDate |-> IF lc = None THEN None ELSE Some(lc[1].DTExpiry)]

\* findCandidates({ FirstName, LastName, Email, Phone, DOB })
findCandidates(q) ==
    LET p       == Params(q)
        matched == { customers[k] : k \in { k \in DOMAIN customers :
                                              Matches(customers[k], p) } }
        sorted  == Top(TopRows, OrderBy(matched, p))
    IN  [i \in DOMAIN sorted |-> Candidate(sorted[i])]

\* identities of the customers in the registry
EmailA    == << " ", "A" >>
NameB     == << "b" >>
PhoneA    == << "1", "-", "2" >>
BirthdayA == <<1990, 1, 1>>

\* a member with an email, a land line and a name
EmailMember ==
    [FirstName |-> Some(NameB), Surname |-> Some(NameB), Email |-> Some(EmailA),
     Mobile |-> None, TelNo |-> Some(PhoneA), Birthday |-> None]

\* a member known by name only
NameOnly ==
    [FirstName |-> Some(NameB), Surname |-> Some(NameB), Email |-> None,
     Mobile |-> None, TelNo |-> None, Birthday |-> None]

\* a customer created from an order without a name (first || ''), with a
\* birthday
Unnamed ==
    [FirstName |-> Some(<< >>), Surname |-> Some(<< >>), Email |-> None,
     Mobile |-> None, TelNo |-> None, Birthday |-> Some(BirthdayA)]

WithId(profile, id) ==
    [CustomerID |-> id, FirstName |-> profile.FirstName, Surname |-> profile.Surname,
     Email |-> profile.Email, Mobile |-> profile.Mobile, TelNo |-> profile.TelNo,
     Birthday |-> profile.Birthday]

\* the cards of the searched registry: customer 1 has a card and a later one
PoolCards ==
    << CardRow(1, CardA, FirstDay, FALSE),
       CardRow(1, <<"B">>, AddMonths(3, FirstDay), TRUE) >>

\* a registry of m members known by name, then e members with an email, then
\* u unnamed customers, in the order they were inserted; their identifiers
\* ascend or descend in that order
Registry(m, e, u, up) ==
    [k \in 1 .. m + e + u |->
        WithId(IF k <= m THEN NameOnly ELSE IF k <= m + e THEN EmailMember ELSE Unnamed,
               IF up THEN k ELSE m + e + u + 1 - k)]

Pools ==
    { Registry(c[1], c[2], c[3], up) :
        c \in { c \in (0 .. MaxPool) \X (0 .. MaxPool) \X (0 .. MaxPool) :
                  c[1] + c[2] + c[3] <= MaxPool },
        up \in BOOLEAN }

Queries ==
    { [FirstName |-> nm[1], LastName |-> nm[2], Email |-> e, Phone |-> ph, DOB |-> dob] :
        nm \in { <<None, None>>, <<Some(<< >>), Some(<< >>)>>,
                 <<Some(NameB), None>>, <<Some(NameB), Some(NameB)>> },
        e \in { None, Some(<< >>), Some(<<"a">>) },
        ph \in { None, Some(<<"+", "1", "2">>) },
        dob \in { None, Some(BirthdayA) } }

\* GET /api/staging/:id awaits findCandidates and answers with the recordset
FindCandidates(q) ==
    /\ http' = [kind |-> "candidates", sid |-> 0, res |-> "ok",
                query |-> q, rows |-> findCandidates(q)]
    /\ UNCHANGED <<staging, audit, customers, cards, issued, req, today, ticks, ops>>

MatchInit ==
    /\ staging = << >>
    /\ audit = << >>
    /\ customers \in Pools
    /\ cards = PoolCards
    /\ issued = << >>
    /\ req = [r \in Requests |-> Idle]
    /\ today = FirstDay
    /\ ticks = 0
    /\ ops = 0
    /\ http = Quiet

MatchNext == \E q \in Queries : FindCandidates(q)

MatchSpec == MatchInit /\ [][MatchNext]_vars

\* ================================================================ claims
IsPending(id) == id \in DOMAIN staging /\ staging[id].Status = "Pending"

\* audit entries of a staging record that record a successful approval
Approvals(id) ==
    { i \in DOMAIN audit :
        audit[i].StagingId = id /\ audit[i].Action \in {"Upserted", "Renewed"} }

\* card rows inserted by approvals of a staging record
CardsFor(id) == { i \in DOMAIN issued : issued[i].sid = id }

DuplicateMessage == "Provided CardNo already exists"

\* C1: of the approve requests that run against one Pending staging record,
\* only one succeeds: at most one card row is inserted for the record and at
\* most one Upserted/Renewed audit entry is written for it.
C1_OneApprovalPerRecord ==
    \A id \in StagingIds :
        /\ Cardinality(Approvals(id)) <= 1
        /\ Cardinality(CardsFor(id)) <= 1

\* C2: once a staging record is Approved or Rejected, no step changes its
\* status or any other field than UpdatedAt.
C2_TerminalIsFinal ==
    [][\A id \in DOMAIN staging :
          staging[id].Status # "Pending" =>
            staging'[id] = [staging[id] EXCEPT !.UpdatedAt = staging'[id].UpdatedAt]
      ]_vars

\* C3: an approve or reject request received for a staging record that is not
\* Pending, or does not exist, is answered NotPending and changes neither the
\* staging store, the audit log, the registry nor the requests in flight.
C3_NotPendingNoEffect ==
    [][(ops' = ops + 1 /\ ~IsPending(http'.sid)) =>
          /\ http'.kind \in {"approve", "reject"}
          /\ http'.res = "NotPending"
          /\ UNCHANGED <<staging, audit, customers, cards, issued, req>>
      ]_vars

\* an approve request has just been refused on a record that was rejected
C3_Witness ==
    /\ http.kind = "approve"
    /\ http.res = "NotPending"
    /\ http.sid \in DOMAIN staging
    /\ staging[http.sid].Status = "Rejected"

\* C4: two cards issued to the same customer never cover overlapping dates:
\* the later call's window starts after the end of the earlier call's window.
C4_WindowsDoNotOverlap ==
    \A i, j \in DOMAIN issued :
        (i < j /\ issued[i].CustomerID = issued[j].CustomerID) =>
            DateLT(issued[i].end, issued[j].start)

\* C5: no two card rows of the registry carry the same card number.
C5_CardNumbersUnique ==
    \A i, j \in DOMAIN cards : i # j => cards[i].CardNo # cards[j].CardNo

\* C6: when the provided card number already exists, the call fails with the
\* duplicate error having added nothing to the registry (no card row, and no
\* customer row of its own on the createNew path), and the staging store is
\* left as it is.
C6_DuplicateLeavesRegistry ==
    [][\A r \in Requests :
          (req'[r].pc = "threw" /\ req[r].pc # "threw"
             /\ req'[r].err = DuplicateMessage) =>
            /\ UNCHANGED <<cards, customers, staging>>
            /\ ~(req[r].createNew /\ req[r].custID \in DOMAIN customers)
      ]_vars

\* C7: a card issued to an existing customer whose current card expires on
\* D, today or later, starts on D + 1 day and ends on D + T months, T being
\* the term of the staging record.
C7_BackToBackWindow ==
    \A i \in DOMAIN issued :
        LET e == issued[i]
            T == staging[e.sid].TermMonths
        IN  (~e.createNew /\ e.curExp # None /\ DateLE(e.tdy, e.curExp[1])) =>
                /\ e.start = AddDay(e.curExp[1])
                /\ e.end = AddMonths(T, e.curExp[1])

\* C8: a card issued to a customer with no non-revoked card, or whose latest
\* one has expired, starts today and ends today + T months, T being the term
\* of the staging record.
C8_FreshWindow ==
    \A i \in DOMAIN issued :
        LET e == issued[i]
            T == staging[e.sid].TermMonths
        IN  (e.curExp = None \/ (e.curExp # None /\ DateLT(e.curExp[1], e.tdy))) =>
                /\ e.start = e.tdy
                /\ e.end = AddMonths(T, e.tdy)

\* C9: when the registry operation of an approval throws, the staging store
\* is unchanged (a Pending record stays Pending) and the handler ends by
\* appending exactly one Error audit entry for the record.
C9_FailedApprovalKeepsPending ==
    [][\A r \in Requests :
          /\ (req'[r].pc = "threw" /\ req[r].pc # "threw") =>
                UNCHANGED <<staging, audit>>
          /\ (req[r].pc = "threw" /\ req'[r].pc # "threw") =>
                /\ staging' = staging
                /\ Len(audit') = Len(audit) + 1
                /\ SubSeq(audit', 1, Len(audit)) = audit
                /\ audit'[Len(audit')].StagingId = req[r].sid
                /\ audit'[Len(audit')].Action = "Error"
                /\ req'[r].pc = "idle"
      ]_vars

\* an approval of a record failed and was audited, and an approval of the
\* same record whose registry call ran on a later day succeeded
C9_Witness ==
    /\ \A r \in Requests : req[r].pc = "idle"
    /\ \E i, j \in DOMAIN audit, k \in DOMAIN issued :
        /\ i < j
        /\ audit[i].StagingId = audit[j].StagingId
        /\ audit[i].Action = "Error"
        /\ audit[j].Action \in {"Upserted", "Renewed"}
        /\ issued[k].sid = audit[j].StagingId
        /\ DateLT(audit[i].CreatedAt, issued[k].tdy)
        /\ Cardinality(CardsFor(audit[j].StagingId)) = 1
        /\ staging[audit[j].StagingId].Status = "Approved"

\* C10: a successful approval sets the record to Approved and appends, in the
\* same step, exactly one audit entry for it: Upserted on the createNew path,
\* Renewed otherwise, whose diff carries the customer id and the card number
\* the registry operation returned.
C10_ApprovalAudited ==
    [][\A r \in Requests :
          (req[r].pc = "returned" /\ req'[r].pc = "idle") =>
            /\ staging'[req[r].sid].Status = "Approved"
            /\ Len(audit') = Len(audit) + 1
            /\ SubSeq(audit', 1, Len(audit)) = audit
            /\ LET e == audit'[Len(audit')]
                   o == req[r].outcome[1]
               IN  /\ e.StagingId = req[r].sid
                   /\ e.Action = (IF req[r].createNew THEN "Upserted" ELSE "Renewed")
                   /\ DOMAIN e.DiffJson = {"customerID", "cardNo"}
                   /\ e.DiffJson["customerID"] = o.CustomerID
                   /\ e.DiffJson["cardNo"] = o.CardNo
      ]_vars

\* the line items of the order received by the webhook step that has just run
Received == http.order.line_items

\* C11: ingestion of one order is all-or-nothing: after the webhook call the
\* staging store holds, behind the rows it had, either one new row for each
\* of the N line items of the order or no new row at all; when an insert
\* throws the call answers with an error and the store is as it was.
C11_IngestAllOrNothing ==
    [][http'.kind = "ingest" =>
          LET N == Len(http'.order.line_items)
          IN  /\ Len(staging') \in {Len(staging), Len(staging) + N}
              /\ SubSeq(staging', 1, Len(staging)) = staging
              /\ \A i \in Len(staging) + 1 .. Len(staging') :
                    staging'[i].OrderId = http'.order.id
              /\ http'.res = "error" => staging' = staging
              /\ http'.res = "staged" => Len(staging') = Len(staging) + N
      ]_vars

\* an order of several line items whose last insert throws, the others being
\* insertable, has been answered with an error and the store holds no row
C11_Witness ==
    /\ http.kind = "ingest"
    /\ http.res = "error"
    /\ Len(Received) >= 2
    /\ \A i \in DOMAIN Received :
          InsertRuns(StagingRow(i, http.order, Received[i], today)) <=> i < Len(Received)
    /\ staging = << >>

\* C12: the rows an order creates are those of its line items of the
\* membership category: their number is the number of such items.
C12_OnlyMembershipItemsStaged ==
    [][(http'.kind = "ingest" /\ http'.res # "error") =>
          Len(staging') - Len(staging) =
            Cardinality({ i \in DOMAIN http'.order.line_items :
                            http'.order.line_items[i].membership })
      ]_vars
\* an input field that was given and is not empty
Supplied(v) == IF v = None THEN FALSE ELSE v[1] # << >>

\* a returned row matches the query by email: the same address, letter case
\* and surrounding spaces apart
ByEmail(row, q) ==
    /\ Supplied(q.Email)
    /\ row.Email # None
    /\ Lower(Trim(row.Email[1])) = Lower(Trim(q.Email[1]))

\* ... by phone: the same number once '+', ' ' and '-' are removed
ByPhone(row, q) ==
    LET phone == IF row.Mobile # None THEN row.Mobile ELSE row.TelNo
    IN  /\ Supplied(q.Phone)
        /\ phone # None
        /\ StripPhone(phone[1]) = StripPhone(q.Phone[1])

\* ... by date of birth
ByDob(row, q) == Supplied(q.DOB) /\ row.DOB = q.DOB

\* ... by first and last name, both given
ByName(row, q) ==
    /\ Supplied(q.FirstName)
    /\ Supplied(q.LastName)
    /\ row.FirstName = q.FirstName
    /\ row.LastName = q.LastName

\* C13: findCandidates returns at most 5 rows; every row that matches the
\* query's email comes before every row that does not; and among the rows of
\* each of these two groups the customer identifiers ascend, whatever the
\* order in which the customers were inserted.
C13_CandidatesRanked ==
    http.kind = "candidates" =>
        LET rows == http.rows
            q    == http.query
        IN  /\ Len(rows) <= 5
            /\ \A i, j \in DOMAIN rows :
                  i < j =>
                    /\ ~(ByEmail(rows[j], q) /\ ~ByEmail(rows[i], q))
                    /\ (ByEmail(rows[i], q) <=> ByEmail(rows[j], q)) =>
                          rows[i].CustomerID < rows[j].CustomerID

\* more than 5 customers match and 5 are returned, among them a customer
\* matching by email ahead of one who matches by name only, has a smaller
\* identifier and was inserted earlier
C13_Witness ==
    /\ http.kind = "candidates"
    /\ Len(http.rows) = 5
    /\ Len(customers) > 5
    /\ \E i, j \in DOMAIN http.rows :
          /\ i < j
          /\ ByEmail(http.rows[i], http.query)
          /\ ~ByEmail(http.rows[j], http.query)
          /\ ByName(http.rows[j], http.query)
          /\ http.rows[j].CustomerID < http.rows[i].CustomerID
          /\ \E a, b \in DOMAIN customers :
                /\ a < b
                /\ customers[a].CustomerID = http.rows[j].CustomerID
                /\ customers[b].CustomerID = http.rows[i].CustomerID

\* C14: every row findCandidates returns matches the query on a field that
\* was supplied (email, phone, date of birth, or first and last name both):
\* an absent or empty field matches nothing, a query with no field supplied
\* returns nothing, and the query leaves the registry as it is.
C14_EmptyInputDisablesBranch ==
    [][http'.kind = "candidates" =>
          LET rows == http'.rows
              q    == http'.query
          IN  /\ \A i \in DOMAIN rows :
                    \/ ByEmail(rows[i], q)
                    \/ ByPhone(rows[i], q)
                    \/ ByDob(rows[i], q)
                    \/ ByName(rows[i], q)
              /\ (\A f \in {"FirstName", "LastName", "Email", "Phone", "DOB"} :
                      ~Supplied(q[f])) => rows = << >>
              /\ UNCHANGED <<customers, cards>>
      ]_vars

\* a query with empty names and an email has returned the customers of that
\* email, and not a customer of the registry whose names are empty
C14_Witness ==
    /\ http.kind = "candidates"
    /\ http.query.FirstName = Some(<< >>)
    /\ http.query.LastName = Some(<< >>)
    /\ Supplied(http.query.Email)
    /\ http.rows # << >>
    /\ \E k \in DOMAIN customers :
          /\ customers[k].FirstName = Some(<< >>)
          /\ customers[k].Surname = Some(<< >>)
          /\ \A i \in DOMAIN http.rows :
                http.rows[i].CustomerID # customers[k].CustomerID

\* the term the claim gives a line item: the numeric value of its term_months
\* entry, 12 when the entry is absent or its value is not numeric
ClaimedTerm(li) ==
    IF li.term_months # None /\ Number(li.term_months) # NaN
    THEN Number(li.term_months)[1]
    ELSE 12

\* C17: every line item of an order (of membership items) is staged, with the
\* numeric value of its term_months entry as its term when that value is
\* numeric, and with term 12 when the entry is absent or not numeric.
C17_TermFromMetadata ==
    [][(/\ http'.kind = "ingest"
        /\ \A i \in DOMAIN http'.order.line_items :
              http'.order.line_items[i].membership) =>
          LET items == http'.order.line_items
          IN  /\ Len(staging') = Len(staging) + Len(items)
              /\ \A i \in DOMAIN items :
                    staging'[Len(staging) + i].TermMonths = ClaimedTerm(items[i])
      ]_vars
\* C15: a staging record is Approved only if an approval of it has inserted
\* a card row in the registry: the status never becomes Approved before, or
\* without, a successful card insert for the record.
C15_ApprovedAfterCardInsert ==
    \A id \in DOMAIN staging :
        staging[id].Status = "Approved" =>
            \E k \in CardsFor(id) :
                /\ issued[k].row \in DOMAIN cards
                /\ cards[issued[k].row].CustomerID = issued[k].CustomerID

\* a record is Approved, its card is in the registry, no request is running
C15_Witness ==
    /\ \A r \in Requests : req[r].pc = "idle"
    /\ \E id \in DOMAIN staging :
          /\ staging[id].Status = "Approved"
          /\ Cardinality(CardsFor(id)) = 1
          /\ Approvals(id) # {}

\* C16: reject on a Pending record sets it to Rejected, stamps UpdatedAt,
\* appends one audit entry with action Rejected whose payload carries the
\* reason the caller supplied, when one is supplied, and leaves the registry
\* alone.
C16_RejectRecordsReason ==
    [][\A id \in StagingIds, reason \in Reasons :
          (IsPending(id) /\ Reject(id, reason)) =>
            /\ staging'[id].Status = "Rejected"
            /\ staging'[id].UpdatedAt = today
            /\ Len(audit') = Len(audit) + 1
            /\ audit'[Len(audit')].StagingId = id
            /\ audit'[Len(audit')].Action = "Rejected"
            /\ reason # None =>
                  /\ "reason" \in DOMAIN audit'[Len(audit')].DiffJson
                  /\ audit'[Len(audit')].DiffJson["reason"] = reason[1]
            /\ UNCHANGED <<customers, cards>>
      ]_vars

\* C18: on the createNew path, when the call fails after the customer was
\* inserted, the customer stays in the registry, the call has attached no
\* card to it, and staging and audit are untouched by the failure; the
\* handler then answers with the error and appends an Error entry, leaving
\* staging and the registry as they are; and every createNew approval inserts
\* a customer of its own, with a new identifier.
C18_OrphanCustomerKept ==
    [][\A r \in Requests :
          /\ (/\ req[r].createNew /\ req[r].custID # 0
              /\ req[r].pc # "threw" /\ req'[r].pc = "threw") =>
                /\ customers' = customers
                /\ req[r].custID \in DOMAIN customers
                /\ cards' = cards
                /\ ~\E k \in DOMAIN issued' :
                       issued'[k].createNew /\ issued'[k].CustomerID = req[r].custID
                /\ UNCHANGED <<staging, audit>>
          /\ (req[r].createNew /\ req[r].pc = "threw" /\ req'[r].pc # "threw") =>
                /\ http'.res = "error"
                /\ audit'[Len(audit')].Action = "Error"
                /\ audit'[Len(audit')].StagingId = req[r].sid
                /\ UNCHANGED <<staging, customers, cards>>
          /\ (req[r].pc = "insertCustomer" /\ req'[r].pc = "readExpiry") =>
                /\ Len(customers') = Len(customers) + 1
                /\ SubSeq(customers', 1, Len(customers)) = customers
                /\ req'[r].custID = Len(customers')
      ]_vars

\* a createNew approval of a record failed after its customer was inserted,
\* and a later createNew approval of the record succeeded: the first customer
\* is in the registry with no card, the card went to a further customer
C18_Witness ==
    /\ \A r \in Requests : req[r].pc = "idle"
    /\ \E i, j \in DOMAIN audit, k \in DOMAIN customers, m \in DOMAIN issued :
          /\ i < j
          /\ audit[i].Action = "Error"
          /\ audit[j].Action = "Upserted"
          /\ audit[i].StagingId = audit[j].StagingId
          /\ k > 1
          /\ \A c \in DOMAIN cards : cards[c].CustomerID # k
          /\ issued[m].createNew
          /\ issued[m].sid = audit[j].StagingId
          /\ issued[m].CustomerID > k
          /\ staging[audit[j].StagingId].Status = "Approved"

\* C19: no step changes or removes an audit entry, the entries' identifiers
\* increase strictly along the log, and no staging record is removed.
C19_AuditAppendOnly ==
    [][/\ Len(audit') >= Len(audit)
       /\ SubSeq(audit', 1, Len(audit)) = audit
       /\ \A i, j \in DOMAIN audit' : i < j => audit'[i].AuditId < audit'[j].AuditId
       /\ Len(staging') >= Len(staging)
       /\ \A i \in DOMAIN staging : staging'[i].StagingId = staging[i].StagingId
      ]_vars

\* the log holds the Error entry of a failed approval and, behind it, the
\* entry of a rejection
C19_Witness ==
    /\ Len(audit) = 2
    /\ audit[1].Action = "Error"
    /\ audit[2].Action = "Rejected"
    /\ audit[1].AuditId < audit[2].AuditId
    /\ staging # << >>
====
